---- MODULE Spec2Model ----
(***************************************************************************)
(* Model of backend/main.py: the process_photo HTTP handler, the Gemini    *)
(* verdict call, the frame compositor with its aspect-preserving resizer,  *)
(* and the upload to Google Cloud Storage.                                 *)
(*                                                                         *)
(* Python floats are IEEE-754 doubles.  The resizer divides and multiplies *)
(* in doubles and truncates with int(), so the model carries doubles as a  *)
(* 53-bit significand and a binary exponent, and rounds to nearest-even    *)
(* exactly as the hardware does.                                           *)
(***************************************************************************)
EXTENDS Integers, Sequences, FiniteSets, TLC

VARIABLES
    pc,               \* position of process_photo for the request in flight
    request,          \* the inbound request (method, files, filename)
    image,            \* the decoded user image
    analysis_result,  \* value returned by analyze_image_with_gemini
    frame_type,       \* "yes" / "no" selected from analysis_result
    framed_image,     \* value returned by create_framed_image
    filename,         \* generated storage key
    response,         \* (body, status) returned by process_photo
    bucket,           \* Google Cloud Storage bucket: key -> blob
    tmpdir,           \* temporary files present on disk
    now,              \* datetime.now() in whole seconds
    nreq,             \* number of requests received so far
    keys,             \* history: storage keys generated, one per request
    called,           \* history: collaborators called for this request
    raised,           \* history: exceptions caught by the helpers
    call,             \* arguments of a direct call of resize_image_to_fit
    ret               \* its result

vars == <<pc, request, image, analysis_result, frame_type, framed_image,
          filename, response, bucket, tmpdir, now, nreq, keys, called,
          raised, call, ret>>

handlerVars == <<pc, request, image, analysis_result, frame_type,
                 framed_image, filename, response, bucket, tmpdir, now,
                 nreq, keys, called, raised>>

----------------------------------------------------------------------------
(* Bounds of the model *)

MaxRequests == 1      \* requests received in one behaviour of Spec
MaxSequence == 2      \* requests received in one behaviour of SeqSpec
MaxClock == 1         \* seconds the clock can advance
NumIds == 2           \* distinct values of str(uuid.uuid4())[:8]
FrameWidth == 1000    \* pixel width of the yes.png asset
FrameHeight == 800    \* pixel height of the yes.png asset
MaxSrcWidth == 2000   \* widest uploaded photo
MaxSrcHeight == 1000  \* tallest uploaded photo
MaxSrc == 11          \* source sides in direct calls of the resizer
MaxBox == 15          \* target box sides in direct calls of the resizer

----------------------------------------------------------------------------
(* IEEE-754 double arithmetic on the values the resizer computes.  A       *)
(* double is [m |-> <<l0, l1, l2, l3, l4>>, e |-> e]: the leading bit l0   *)
(* and four 13-bit limbs of the 52-bit fraction, most significant first;  *)
(* its value is (l0 + l1/2^13 + l2/2^26 + l3/2^39 + l4/2^52) * 2^e.        *)
(* The operators are exact for operands below 8192.                        *)

LimbBits == 13

None == "None"

RECURSIVE Pow2(_)
Pow2(n) == IF n = 0 THEN 1 ELSE 2 * Pow2(n - 1)

Limb == Pow2(LimbBits)

MaxOf(S) == CHOOSE x \in S : \A y \in S : y <= x

\* largest e with 2^e <= a/b, for a >= b
RECURSIVE ExpUp(_, _, _)
ExpUp(a, b, e) == IF b * Pow2(e + 1) <= a THEN ExpUp(a, b, e + 1) ELSE e

\* largest e with 2^e <= a/b, for a < b
RECURSIVE ExpDown(_, _, _)
ExpDown(a, b, e) == IF a * Pow2(-e) < b THEN ExpDown(a, b, e - 1) ELSE e

ExpOf(a, b) == IF a >= b THEN ExpUp(a, b, 0) ELSE ExpDown(a, b, 0)

\* the next double above: one unit in the last place more; a carry out of
\* the fraction renormalises to 1.0 * 2^(e+1)
RoundUp(m, e) ==
    LET room == {i \in 2..5 : m[i] < Limb - 1}
    IN  IF room = {}
        THEN [m |-> <<1, 0, 0, 0, 0>>, e |-> e + 1]
        ELSE LET k == MaxOf(room)
             IN  [m |-> [i \in 1..5 |-> IF i < k THEN m[i]
                                        ELSE IF i = k THEN m[i] + 1 ELSE 0],
                  e |-> e]

\* a / b for positive ints, correctly rounded (Python true division)
FDiv(a, b) ==
    LET e == ExpOf(a, b)
        n == IF e >= 0 THEN a ELSE a * Pow2(-e)
        d == IF e >= 0 THEN b * Pow2(e) ELSE b
        t1 == (n - d) * Limb
        t2 == (t1 % d) * Limb
        t3 == (t2 % d) * Limb
        t4 == (t3 % d) * Limb
        m == <<1, t1 \div d, t2 \div d, t3 \div d, t4 \div d>>
        r == 2 * (t4 % d)
    IN  IF r > d \/ (r = d /\ m[5] % 2 = 1)
        THEN RoundUp(m, e)
        ELSE [m |-> m, e |-> e]

\* f < g for positive doubles
FLess(f, g) ==
    \/ f.e < g.e
    \/ /\ f.e = g.e
       /\ \E i \in 1..5 :
             /\ f.m[i] < g.m[i]
             /\ \A j \in 1..(i - 1) : f.m[j] = g.m[j]

\* min(f, g) as Python's min: the first argument unless the second is less
FMin(f, g) == IF FLess(g, f) THEN g ELSE f

\* x * f for a positive int x (exact as a double) and a positive double f:
\* the exact product, then rounded to nearest-even at 53 bits
FMul(x, f) ==
    LET t4 == x * f.m[5]
        t3 == x * f.m[4] + (t4 \div Limb)
        t2 == x * f.m[3] + (t3 \div Limb)
        t1 == x * f.m[2] + (t2 \div Limb)
        t0 == x * f.m[1] + (t1 \div Limb)
        o == <<t0, t1 % Limb, t2 % Limb, t3 % Limb, t4 % Limb>>
        k == ExpOf(t0, 1)
        p == Pow2(k)
        q == Pow2(LimbBits - k)
        m == <<1,
               (o[1] % p) * q + (o[2] \div p),
               (o[2] % p) * q + (o[3] \div p),
               (o[3] % p) * q + (o[4] \div p),
               (o[4] % p) * q + (o[5] \div p)>>
        dropped == o[5] % p
    IN  IF k > 0 /\ (2 * dropped > p \/ (2 * dropped = p /\ m[5] % 2 = 1))
        THEN RoundUp(m, f.e + k)
        ELSE [m |-> m, e |-> f.e + k]

\* int(f): truncation toward zero of a positive double below 2^27
FTrunc(f) ==
    IF f.e < 0 THEN 0
    ELSE IF f.e <= LimbBits
    THEN f.m[1] * Pow2(f.e) + (f.m[2] \div Pow2(LimbBits - f.e))
    ELSE (f.m[1] * Limb + f.m[2]) * Pow2(f.e - LimbBits)
           + (f.m[3] \div Pow2(2 * LimbBits - f.e))

----------------------------------------------------------------------------
(* resize_image_to_fit and PIL's Image.resize *)

\* Image.resize((w, h), ...): PIL refuses a side smaller than 1
ImageResize(img, size) ==
    IF size[1] < 1 \/ size[2] < 1
    THEN [ok |-> FALSE, error |-> "ValueError", new_size |-> size]
    ELSE [ok |-> TRUE, error |-> None, new_size |-> size]

resize_image_to_fit(img, target_width, target_height) ==
    LET original_width == img.size[1]
        original_height == img.size[2]
    IN  IF original_width = 0 \/ original_height = 0
        THEN [ok |-> FALSE, error |-> "ZeroDivisionError",
              new_size |-> <<0, 0>>]
        ELSE IF target_width <= 0 \/ target_height <= 0
        THEN \* a ratio <= 0 is the minimum: no new side can be positive
             [ok |-> FALSE, error |-> "ValueError", new_size |-> <<0, 0>>]
        ELSE LET width_ratio == FDiv(target_width, original_width)
                 height_ratio == FDiv(target_height, original_height)
                 scale_ratio == FMin(width_ratio, height_ratio)
                 new_width == FTrunc(FMul(original_width, scale_ratio))
                 new_height == FTrunc(FMul(original_height, scale_ratio))
             IN  ImageResize(img, <<new_width, new_height>>)

----------------------------------------------------------------------------
(* Python strings as sequences of characters *)

UpperCase == <<"A","B","C","D","E","F","G","H","I","J","K","L","M",
               "N","O","P","Q","R","S","T","U","V","W","X","Y","Z">>
LowerCase == <<"a","b","c","d","e","f","g","h","i","j","k","l","m",
               "n","o","p","q","r","s","t","u","v","w","x","y","z">>
Whitespace == {" ", "\n", "\t", "\r"}

LowerChar(c) ==
    IF \E i \in 1..26 : UpperCase[i] = c
    THEN LowerCase[CHOOSE i \in 1..26 : UpperCase[i] = c]
    ELSE c

\* str.lower()
lower(s) == [i \in 1..Len(s) |-> LowerChar(s[i])]

\* str.strip()
strip(s) ==
    LET keep == {i \in 1..Len(s) : s[i] \notin Whitespace}
    IN  IF keep = {} THEN <<>>
        ELSE SubSeq(s, CHOOSE i \in keep : \A j \in keep : i <= j, MaxOf(keep))

\* str.endswith(suffix)
endswith(s, suffix) ==
    /\ Len(suffix) <= Len(s)
    /\ SubSeq(s, Len(s) - Len(suffix) + 1, Len(s)) = suffix

AllowedSuffixes == {<<".","j","p","g">>, <<".","j","p","e","g">>,
                    <<".","p","n","g">>}

YES == <<"y","e","s">>
NO == <<"n","o">>

----------------------------------------------------------------------------
(* Inputs of the model *)

Methods == {"OPTIONS", "GET", "POST"}

Filenames == {<<"A",".","J","P","G">>, <<"b",".","j","p","e","g">>,
              <<"c",".","P","n","g">>, <<"d",".","g","i","f">>,
              <<"j","p","g">>, <<"e",".","p","n","g",".","t","x","t">>}

\* request.files: the multipart fields that carry a file
FileFields == {<<>>, [avatar |-> <<"A",".","J","P","G">>]}
                 \cup {[photo |-> f] : f \in Filenames}

Requests == [method : Methods, files : FileFields]

\* what Image.open finds in the upload
SrcSizes == {<<MaxSrcWidth, MaxSrcHeight>>, <<MaxSrcWidth, 1>>}
SrcModes == {"RGB", "RGBA"}
DecodeErrors == {"UnidentifiedImageError"}

\* what the remote model answers: response.text, or an exception
GeminiTexts == {<<" ","Y","E","S","\n">>, <<"n","o">>, <<"Y","e","s",".">>}
GeminiErrors == {"GoogleAPIError", "ValueError"}
GeminiReplies == [kind : {"text"}, text : GeminiTexts]
                   \cup [kind : {"error"}, error : GeminiErrors]

\* the step of upload_to_gcs that raises, if any
UploadOutcomes == {"ok", "save", "upload_from_filename", "make_public"}
UploadError(o) ==
    CASE o = "save" -> "OSError"
      [] o = "upload_from_filename" -> "GoogleCloudError"
      [] o = "make_public" -> "Forbidden"
      [] OTHER -> None
UploadErrors == {UploadError(o) : o \in UploadOutcomes \ {"ok"}}

\* the frame assets of the deployment bundle
FrameSize(frame_path) ==
    IF frame_path = "yes.png" THEN <<FrameWidth, FrameHeight>>
    ELSE <<FrameHeight, FrameWidth>>
FrameModes == {"RGBA", "RGB"}
FrameLoads == [ok : {TRUE}, mode : FrameModes]
                \cup [ok : {FALSE}, error : {"FileNotFoundError"}]

bucket_name == "photo-frame-bucket"

NoRequest == [method |-> "", files |-> <<>>]
NoImage == [size |-> <<0, 0>>, mode |-> "", of |-> <<"none">>]
NoResponse == [status |-> 0]
NoCall == [size |-> <<0, 0>>, target_width |-> 0, target_height |-> 0]
NoRet == [ok |-> FALSE, error |-> "pending", new_size |-> <<0, 0>>]

----------------------------------------------------------------------------
(* The helpers of main.py *)

padding == 50

FramePath(ft) == IF ft = "yes" THEN "yes.png" ELSE "no.png"

\* lines 46-64: the canvas, the centred paste, the frame on top and the
\* flattening to RGB; the result has the size of the frame
paste_and_flatten(frame_path, frame_width, frame_height, resized) ==
    IF ~resized.ok
    THEN [ok |-> FALSE, error |-> resized.error, image |-> NoImage]
    ELSE [ok |-> TRUE, error |-> None,
          image |-> [size |-> <<frame_width, frame_height>>,
                     mode |-> "RGB",
                     of |-> <<"framed", frame_path, resized.new_size,
                              <<(frame_width - resized.new_size[1]) \div 2,
                                (frame_height - resized.new_size[2]) \div 2>> >>]]

\* lines 34-44: the target box inside the padding and the resize
fit_in_frame(user_image, frame_path, frame_width, frame_height) ==
    paste_and_flatten(frame_path, frame_width, frame_height,
                      resize_image_to_fit(user_image,
                                          frame_width - (2 * padding),
                                          frame_height - (2 * padding)))

\* the try body of create_framed_image; load is what Image.open(frame_path)
\* finds on disk (a frame that is not RGBA is converted to RGBA)
compose_frame(user_image, frame_path, load) ==
    IF ~load.ok
    THEN [ok |-> FALSE, error |-> load.error, image |-> NoImage]
    ELSE fit_in_frame(user_image, frame_path, FrameSize(frame_path)[1],
                      FrameSize(frame_path)[2])

\* the except clause of create_framed_image left out
uncaught(user_image, attempt) ==
    IF attempt.ok
    THEN [value |-> attempt.image, exc |-> None, failure |-> None]
    ELSE [value |-> NoImage, exc |-> attempt.error, failure |-> attempt.error]

\* except Exception: return user_image
caught(user_image, attempt) ==
    IF attempt.ok
    THEN [value |-> attempt.image, exc |-> None, failure |-> None]
    ELSE [value |-> user_image, exc |-> None, failure |-> attempt.error]

\* create_framed_image without its except clause
create_framed_image_uncaught(user_image, frame_path, load) ==
    uncaught(user_image, compose_frame(user_image, frame_path, load))

\* try: ... return final_result / except Exception: return user_image
\* (failure is the exception that the try body raised, for the record)
create_framed_image(user_image, frame_path, load) ==
    caught(user_image, compose_frame(user_image, frame_path, load))

\* analyze_image_with_gemini without its except clause
analyze_image_uncaught(reply) ==
    IF reply.kind = "error"
    THEN [value |-> <<>>, exc |-> reply.error]
    ELSE [value |-> lower(strip(reply.text)), exc |-> None]

\* try: ... return response.text.strip().lower() / except: return "no"
analyze_image_with_gemini(reply) ==
    IF reply.kind = "error"
    THEN [value |-> NO, exc |-> None]
    ELSE [value |-> lower(strip(reply.text)), exc |-> None]

PublicUrl(key) == <<"https://storage.googleapis.com", bucket_name, key>>

WriteBlob(key, blob) ==
    [k \in (DOMAIN bucket) \cup {key} |-> IF k = key THEN blob ELSE bucket[k]]

\* upload_to_gcs with "return blob.public_url" in place of "raise"
upload_to_gcs_swallowed(img, key, outcome) ==
    LET temp_file_path == <<"tmp", nreq>>
        created == tmpdir \cup {temp_file_path}
        blob == [image |-> img, public |-> FALSE, writer |-> nreq]
    IN  CASE outcome \in {"save", "upload_from_filename"} ->
                [exc |-> None, url |-> PublicUrl(key),
                 bucket |-> bucket, tmpdir |-> created]
          [] outcome = "make_public" ->
                [exc |-> None, url |-> PublicUrl(key),
                 bucket |-> WriteBlob(key, blob), tmpdir |-> created]
          [] OTHER ->
                [exc |-> None, url |-> PublicUrl(key),
                 bucket |-> WriteBlob(key, [blob EXCEPT !.public = TRUE]),
                 tmpdir |-> created \ {temp_file_path}]

\* outcome names the step that raises; every exception is re-raised
upload_to_gcs(img, key, outcome) ==
    LET temp_file_path == <<"tmp", nreq>>
        created == tmpdir \cup {temp_file_path}
        blob == [image |-> img, public |-> FALSE, writer |-> nreq]
    IN  CASE outcome = "save" ->
                [exc |-> UploadError(outcome), url |-> <<>>,
                 bucket |-> bucket, tmpdir |-> created]
          [] outcome = "upload_from_filename" ->
                [exc |-> UploadError(outcome), url |-> <<>>,
                 bucket |-> bucket, tmpdir |-> created]
          [] outcome = "make_public" ->
                [exc |-> UploadError(outcome), url |-> <<>>,
                 bucket |-> WriteBlob(key, blob), tmpdir |-> created]
          [] OTHER ->
                [exc |-> None, url |-> PublicUrl(key),
                 bucket |-> WriteBlob(key, [blob EXCEPT !.public = TRUE]),
                 tmpdir |-> created \ {temp_file_path}]

ErrorResponse(e) ==
    [status |-> 500, success |-> FALSE,
     error |-> <<"Internal server error: ", e>>]

\* the validation with the method test left out
Validate_any_method(req) ==
    IF req.method = "OPTIONS"
    THEN [status |-> 204, body |-> ""]
    ELSE IF "photo" \notin DOMAIN req.files
    THEN [status |-> 400, success |-> FALSE,
          error |-> "No photo file provided"]
    ELSE IF ~(\E suffix \in AllowedSuffixes :
                 endswith(lower(req.files.photo), suffix))
    THEN [status |-> 400, success |-> FALSE,
          error |-> "Invalid file type. Only JPG, JPEG, and PNG are allowed"]
    ELSE NoResponse

\* lines 148-175 of process_photo: the response of a rejected request, or
\* NoResponse when the request goes on
Validate(req) ==
    IF req.method = "OPTIONS"
    THEN [status |-> 204, body |-> ""]
    ELSE IF req.method # "POST"
    THEN [status |-> 405, success |-> FALSE,
          error |-> "Only POST method is allowed"]
    ELSE IF "photo" \notin DOMAIN req.files
    THEN [status |-> 400, success |-> FALSE,
          error |-> "No photo file provided"]
    ELSE IF ~(\E suffix \in AllowedSuffixes :
                 endswith(lower(req.files.photo), suffix))
    THEN [status |-> 400, success |-> FALSE,
          error |-> "Invalid file type. Only JPG, JPEG, and PNG are allowed"]
    ELSE NoResponse

----------------------------------------------------------------------------
(* process_photo, one request at a time *)

Init ==
    /\ pc = "idle"
    /\ request = NoRequest
    /\ image = NoImage
    /\ analysis_result = <<>>
    /\ frame_type = ""
    /\ framed_image = NoImage
    /\ filename = <<>>
    /\ response = NoResponse
    /\ bucket = <<>>
    /\ tmpdir = {}
    /\ now = 0
    /\ nreq = 0
    /\ keys = <<>>
    /\ called = {}
    /\ raised = {}
    /\ call = NoCall
    /\ ret = NoRet

\* a request arrives: validation, Image.open and the conversion to RGB
Receive(req, dec, max) ==
    /\ pc \in {"idle", "done"}
    /\ nreq < max
    /\ nreq' = nreq + 1
    /\ request' = req
    /\ analysis_result' = <<>>
    /\ frame_type' = ""
    /\ framed_image' = NoImage
    /\ filename' = <<>>
    /\ called' = {}
    /\ LET v == Validate(req)
       IN  IF v.status # 0
           THEN /\ response' = v
                /\ image' = NoImage
                /\ raised' = {}
                /\ pc' = "done"
           ELSE IF ~dec.ok
           THEN /\ response' = ErrorResponse(dec.error)
                /\ image' = NoImage
                /\ raised' = {<<"Image.open", dec.error>>}
                /\ pc' = "done"
           ELSE /\ response' = NoResponse
                /\ image' = [size |-> dec.size,
                             mode |-> IF dec.mode # "RGB" THEN "RGB"
                                      ELSE dec.mode,
                             of |-> <<"photo">>]
                /\ raised' = {}
                /\ pc' = "classify"
    /\ UNCHANGED <<bucket, tmpdir, now, keys, call, ret>>

Decodes == [ok : {TRUE}, size : SrcSizes, mode : SrcModes]
             \cup [ok : {FALSE}, error : DecodeErrors]

\* analyze_image_with_gemini and the choice of the frame
Classify(reply) ==
    /\ pc = "classify"
    /\ called' = called \cup {"analyze_image_with_gemini"}
    /\ raised' = IF reply.kind = "error"
                 THEN raised \cup {<<"analyze_image_with_gemini", reply.error>>}
                 ELSE raised
    /\ LET a == analyze_image_with_gemini(reply)
       IN  IF a.exc # None
           THEN /\ response' = ErrorResponse(a.exc)
                /\ pc' = "done"
                /\ UNCHANGED <<analysis_result, frame_type>>
           ELSE /\ analysis_result' = a.value
                /\ frame_type' = IF a.value = YES THEN "yes" ELSE "no"
                /\ pc' = "composite"
                /\ UNCHANGED response
    /\ UNCHANGED <<request, image, framed_image, filename, bucket, tmpdir,
                   now, nreq, keys, call, ret>>

\* line 198, given what create_framed_image returned or raised
CompositeReturn(c) ==
    /\ raised' = IF c.failure = None THEN raised
                 ELSE raised \cup {<<"create_framed_image", c.failure>>}
    /\ IF c.exc # None
       THEN /\ response' = ErrorResponse(c.exc)
            /\ pc' = "done"
            /\ UNCHANGED framed_image
       ELSE /\ framed_image' = c.value
            /\ pc' = "genkey"
            /\ UNCHANGED response

\* create_framed_image
Composite(load) ==
    /\ pc = "composite"
    /\ called' = called \cup {"create_framed_image"}
    /\ CompositeReturn(create_framed_image(image, FramePath(frame_type), load))
    /\ UNCHANGED <<request, image, analysis_result, frame_type, filename,
                   bucket, tmpdir, now, nreq, keys, call, ret>>

\* timestamp, str(uuid.uuid4())[:8] and the storage key
GenerateKey(unique_id) ==
    /\ pc = "genkey"
    /\ filename' = <<"framed_photos", now, unique_id, frame_type, "webp">>
    /\ keys' = Append(keys, filename')
    /\ pc' = "publish"
    /\ UNCHANGED <<request, image, analysis_result, frame_type, framed_image,
                   response, bucket, tmpdir, now, nreq, called, raised,
                   call, ret>>

\* upload_to_gcs and the response
Publish(outcome) ==
    /\ pc = "publish"
    /\ called' = called \cup {"upload_to_gcs"}
    /\ raised' = IF outcome # "ok"
                 THEN raised \cup {<<"upload_to_gcs", UploadError(outcome)>>}
                 ELSE raised
    /\ LET u == upload_to_gcs(framed_image, filename, outcome)
       IN  /\ bucket' = u.bucket
           /\ tmpdir' = u.tmpdir
           /\ response' =
                 IF u.exc # None
                 THEN ErrorResponse(u.exc)
                 ELSE [status |-> 200, success |-> TRUE,
                       imageUrl |-> u.url,
                       frameStyle |-> frame_type,
                       analysisResult |-> analysis_result,
                       message |-> <<"Photo processed successfully with ",
                                     frame_type, " frame">>]
    /\ pc' = "done"
    /\ UNCHANGED <<request, image, analysis_result, frame_type, framed_image,
                   filename, now, nreq, keys, call, ret>>

\* the wall clock moves on
Tick ==
    /\ now < MaxClock
    /\ now' = now + 1
    /\ UNCHANGED <<pc, request, image, analysis_result, frame_type,
                   framed_image, filename, response, bucket, tmpdir, nreq,
                   keys, called, raised, call, ret>>

Next ==
    \/ \E req \in Requests, dec \in Decodes : Receive(req, dec, MaxRequests)
    \/ \E reply \in GeminiReplies : Classify(reply)
    \/ \E load \in FrameLoads : Composite(load)
    \/ \E unique_id \in 1..NumIds : GenerateKey(unique_id)
    \/ \E outcome \in UploadOutcomes : Publish(outcome)
    \/ Tick

Spec == Init /\ [][Next]_vars

----------------------------------------------------------------------------
(* A sequence of well-formed uploads against the same bucket, clock and   *)
(* temporary directory                                                     *)

SeqRequests == {[method |-> "POST", files |-> [photo |-> <<"A",".","J","P","G">>]]}
SeqDecodes == {[ok |-> TRUE, size |-> <<MaxSrcWidth, MaxSrcHeight>>,
                mode |-> "RGB"]}
SeqReplies == {[kind |-> "text", text |-> <<"n","o">>],
               [kind |-> "text", text |-> <<" ","Y","E","S","\n">>]}
SeqLoads == {[ok |-> TRUE, mode |-> "RGBA"]}

SeqNext ==
    \/ \E req \in SeqRequests, dec \in SeqDecodes :
          Receive(req, dec, MaxSequence)
    \/ \E reply \in SeqReplies : Classify(reply)
    \/ \E load \in SeqLoads : Composite(load)
    \/ \E unique_id \in 1..NumIds : GenerateKey(unique_id)
    \/ \E outcome \in UploadOutcomes : Publish(outcome)
    \/ Tick

SeqSpec == Init /\ [][SeqNext]_vars

----------------------------------------------------------------------------
(* resize_image_to_fit called directly *)

ResizeInit ==
    /\ call \in [size : (0..MaxSrc) \X (0..MaxSrc),
                 target_width : 1..MaxBox, target_height : {1, MaxBox}]
    /\ ret = NoRet
    /\ pc = "idle"
    /\ request = NoRequest
    /\ image = NoImage
    /\ analysis_result = <<>>
    /\ frame_type = ""
    /\ framed_image = NoImage
    /\ filename = <<>>
    /\ response = NoResponse
    /\ bucket = <<>>
    /\ tmpdir = {}
    /\ now = 0
    /\ nreq = 0
    /\ keys = <<>>
    /\ called = {}
    /\ raised = {}

ResizeCall ==
    /\ ret = NoRet
    /\ ret' = resize_image_to_fit([size |-> call.size, mode |-> "RGB",
                                   of |-> <<"photo">>],
                                  call.target_width, call.target_height)
    /\ UNCHANGED <<call, handlerVars>>

ResizeNext == ResizeCall

ResizeSpec == ResizeInit /\ [][ResizeNext]_vars

----------------------------------------------------------------------------
(* Properties *)

UpperChar(c) ==
    IF \E i \in 1..26 : LowerCase[i] = c
    THEN UpperCase[CHOOSE i \in 1..26 : LowerCase[i] = c]
    ELSE c

\* the name ends, whatever the case of its letters, in .jpg, .jpeg or .png
HasAllowedExtension(f) ==
    LET n == Len(f)
        up == [i \in 1..n |-> UpperChar(f[i])]
    IN  \/ /\ n >= 4
           /\ SubSeq(up, n - 3, n) \in {<<".","J","P","G">>, <<".","P","N","G">>}
        \/ /\ n >= 5
           /\ SubSeq(up, n - 4, n) = <<".","J","P","E","G">>

\* nothing was done for the request in flight
Untouched ==
    /\ called = {}
    /\ image = NoImage
    /\ framed_image = NoImage
    /\ filename = <<>>
    /\ \A k \in DOMAIN bucket : bucket[k].writer # nreq
    /\ <<"tmp", nreq>> \notin tmpdir

GeminiRaised == \E e \in GeminiErrors :
                    <<"analyze_image_with_gemini", e>> \in raised
FramingRaised == \E e \in {"FileNotFoundError", "ValueError",
                           "ZeroDivisionError"} :
                    <<"create_framed_image", e>> \in raised
UploadRaised == \E e \in UploadErrors : <<"upload_to_gcs", e>> \in raised

\* C1: a request rejected in validation gets the client error that matches
\* the reason (405 for a method other than POST and OPTIONS, 400 "No photo
\* file provided" for a POST without the field photo, 400 "Invalid file
\* type" for a name that does not end in .jpg/.jpeg/.png), exactly these
\* requests are rejected, and for them no collaborator is called, no image
\* is composited and nothing is written to the bucket.
C1_ValidationRejects ==
    LET m == request.method
        hasPhoto == "photo" \in DOMAIN request.files
        badName == hasPhoto /\ ~HasAllowedExtension(request.files.photo)
    IN  /\ pc \notin {"idle", "done"} => m = "POST" /\ hasPhoto /\ ~badName
        /\ pc = "done" =>
             /\ (m \notin {"POST", "OPTIONS"}) <=> (response.status = 405)
             /\ response.status = 405 =>
                   /\ response.error = "Only POST method is allowed"
                   /\ response.success = FALSE
             /\ (m = "POST" /\ ~hasPhoto) <=>
                   /\ response.status = 400
                   /\ response.error = "No photo file provided"
             /\ (m = "POST" /\ badName) <=>
                   /\ response.status = 400
                   /\ response.error =
                        "Invalid file type. Only JPG, JPEG, and PNG are allowed"
             /\ response.status \in {400, 405} =>
                   response.success = FALSE /\ Untouched

C1_Witness ==
    /\ pc = "done"
    /\ request.method = "POST"
    /\ "photo" \in DOMAIN request.files
    /\ response.status = 400
    /\ called = {}

\* C2: when the remote model call raises, analyze_image_with_gemini returns
\* "no": the exception never reaches process_photo, the "no" frame is
\* selected, the pipeline goes on, and the request answers 200 unless the
\* upload fails.
C2_ClassifierFallback ==
    GeminiRaised =>
        /\ pc \in {"composite", "genkey", "publish", "done"}
        /\ analysis_result = NO
        /\ frame_type = "no"
        /\ response.status = 500 => response.error[2] \in UploadErrors
        /\ (pc = "done" /\ ~UploadRaised) =>
              /\ response.status = 200
              /\ response.frameStyle = "no"
              /\ response.analysisResult = NO

C2_Witness ==
    /\ GeminiRaised
    /\ pc = "done"
    /\ response.status = 200

\* C3: when anything fails inside create_framed_image, the function returns
\* the unmodified source image and the request goes on: a key is generated,
\* that unframed image is published, and the answer is 200 with success
\* true when the upload succeeds.
C3_CompositorFallback ==
    FramingRaised =>
        /\ pc \in {"genkey", "publish", "done"}
        /\ framed_image = image
        /\ pc \in {"publish", "done"} => filename # <<>>
        /\ pc = "done" =>
              IF UploadRaised
              THEN /\ response.status = 500
                   /\ response.error[2] \in UploadErrors
              ELSE /\ response.status = 200
                   /\ response.success = TRUE
                   /\ response.imageUrl = PublicUrl(filename)
                   /\ filename \in DOMAIN bucket
                   /\ bucket[filename].image = image

C3_Witness ==
    /\ FramingRaised
    /\ pc = "done"
    /\ response.status = 200
    /\ bucket[filename].image.of = <<"photo">>

\* C4: process_photo always ends in a response; a failure of upload_to_gcs
\* or of the image decode becomes a 500 response with success false and the
\* exception text, and a 200 response carries the URL of an object that
\* this request uploaded and made public.
C4_PublishFailureIs500 ==
    /\ pc = "done" => response.status \in {200, 204, 400, 405, 500}
    /\ \A e \in UploadErrors :
          <<"upload_to_gcs", e>> \in raised =>
             /\ pc = "done"
             /\ response.status = 500
             /\ response.success = FALSE
             /\ response.error = <<"Internal server error: ", e>>
    /\ \A e \in DecodeErrors :
          <<"Image.open", e>> \in raised =>
             /\ pc = "done"
             /\ response.status = 500
             /\ response.success = FALSE
             /\ response.error = <<"Internal server error: ", e>>
    /\ response.status = 200 =>
          /\ "upload_to_gcs" \in called
          /\ ~UploadRaised
          /\ response.success = TRUE
          /\ response.imageUrl = PublicUrl(filename)
          /\ filename \in DOMAIN bucket
          /\ bucket[filename].public
          /\ bucket[filename].writer = nreq
          /\ bucket[filename].image = framed_image

C4_Witness ==
    /\ <<"upload_to_gcs", "Forbidden">> \in raised
    /\ pc = "done"
    /\ response.status = 500

\* C5: whenever the frame asset loads, the image returned by
\* create_framed_image has the frame's pixel dimensions, whatever the size
\* of the source image.
C5_FramedHasFrameSize ==
    (/\ pc \in {"genkey", "publish", "done"}
     /\ "create_framed_image" \in called
     /\ <<"create_framed_image", "FileNotFoundError">> \notin raised)
    => framed_image.size = FrameSize(FramePath(frame_type))

\* C6: for sources and boxes with sides >= 1 the new dimensions are
\* (floor(srcWidth*scale), floor(srcHeight*scale)) with
\* scale = min(W/srcWidth, H/srcHeight); they fit the box and one of the
\* two sides reaches it.
C6_ResizeFitsAndReaches ==
    (ret.error # "pending" /\ call.size[1] >= 1 /\ call.size[2] >= 1) =>
        LET sw == call.size[1]
            sh == call.size[2]
            W == call.target_width
            H == call.target_height
            widthBinds == W * sh <= H * sw
            expected == IF widthBinds THEN <<W, (sh * W) \div sw>>
                        ELSE <<(sw * H) \div sh, H>>
        IN  /\ ret.new_size = expected
            /\ ret.new_size[1] <= W
            /\ ret.new_size[2] <= H
            /\ ret.new_size[1] = W \/ ret.new_size[2] = H

\* C7: the value returned by analyze_image_with_gemini is exactly "yes" or
\* "no" and is the frame that was selected; so is the analysisResult of
\* a 200 response.
C7_VerdictIsBinary ==
    /\ (pc \in {"composite", "genkey", "publish"}
          \/ (pc = "done" /\ "analyze_image_with_gemini" \in called)) =>
          /\ analysis_result \in {YES, NO}
          /\ analysis_result = YES <=> frame_type = "yes"
    /\ response.status = 200 =>
          /\ response.analysisResult \in {YES, NO}
          /\ response.analysisResult = YES <=> response.frameStyle = "yes"

\* C8: no two requests generate the same storage key.
C8_KeysUnique ==
    \A i, j \in 1..Len(keys) : i # j => keys[i] # keys[j]

\* C9: resize_image_to_fit on a source with a side of 0 fails with
\* InvalidImage.
C9_DegenerateIsInvalidImage ==
    (ret.error # "pending" /\ (call.size[1] = 0 \/ call.size[2] = 0)) =>
        ret.error = "InvalidImage"

\* C10: once upload_to_gcs has returned or raised, no temporary file is
\* left on disk.
C10_NoTemporaryFileLeft == tmpdir = {}

====
